---------------------------- MODULE Spec2Model ----------------------------
(***************************************************************************)
(* Model of example_dag.py: the module is loaded statement by statement    *)
(* (default_args, the DAG object, two function definitions, four operator  *)
(* objects, two dependency declarations); afterwards its two callables can *)
(* be invoked directly, and the orchestration platform can execute one run *)
(* of the declared graph.                                                  *)
(*                                                                         *)
(* Strings are written without the leading pictographs of the source's     *)
(* print arguments; f-string arguments are kept as their templates.        *)
(***************************************************************************)
EXTENDS Integers, Sequences, FiniteSets, TLC

VARIABLES
    pc,           \* the statement the module load executes next
    ns,           \* module namespace: the set of names bound so far
    default_args, \* the dict bound to default_args (line 12)
    dags,         \* DAG objects constructed so far, in construction order
    tasks,        \* operator objects constructed so far, in construction order
    frame,        \* the active direct call of a callable: function and position
    stdout,       \* lines printed by the active call
    results,      \* one record per completed direct call
    run,          \* state of the platform's run of the graph
    ti_state,     \* task_id -> task-instance state in that run
    try_number    \* task_id -> attempts started in that run

vars == <<pc, ns, default_args, dags, tasks, frame, stdout, results,
          run, ti_state, try_number>>

loadVars == <<pc, ns, default_args, dags, tasks>>
callVars == <<frame, stdout, results>>
runVars  == <<run, ti_state, try_number>>

\* Number of direct calls of the callables that are explored.
MaxCalls == 2

None == "None"

-----------------------------------------------------------------------------
(* Values built by the source's expressions *)

\* datetime(y, m, d)
datetime(y, m, d) == [year |-> y, month |-> m, day |-> d]

\* timedelta(minutes=n): a duration, held in seconds
timedelta_minutes(n) == [days |-> 0, seconds |-> n * 60]

\* default_args with retries 2 instead of 1
DefaultArgsLiteral_TwoRetries ==
    [owner            |-> "mcheriyath",
     depends_on_past  |-> FALSE,
     start_date       |-> datetime(2024, 1, 1),
     email_on_failure |-> FALSE,
     email_on_retry   |-> FALSE,
     retries          |-> 2,
     retry_delay      |-> timedelta_minutes(5)]

\* lines 12-20
DefaultArgsLiteral ==
    [owner            |-> "mcheriyath",
     depends_on_past  |-> FALSE,
     start_date       |-> datetime(2024, 1, 1),
     email_on_failure |-> FALSE,
     email_on_retry   |-> FALSE,
     retries          |-> 1,
     retry_delay      |-> timedelta_minutes(5)]

\* DAG(...) without catchup=False: catchup keeps the constructor's default
DagCall_CatchupDefault ==
    [dag_id            |-> "example_airflow_test",
     default_args      |-> default_args,
     description       |-> "A simple example DAG to test Airflow 3.1.0",
     schedule_interval |-> "@daily",
     start_date        |-> datetime(2024, 1, 1),
     catchup           |-> TRUE,
     tags              |-> <<"example", "test", "airflow-3.1.0">>]

\* lines 23-31: the arguments of DAG(...)
DagCall ==
    [dag_id            |-> "example_airflow_test",
     default_args      |-> default_args,
     description       |-> "A simple example DAG to test Airflow 3.1.0",
     schedule_interval |-> "@daily",
     start_date        |-> datetime(2024, 1, 1),
     catchup           |-> FALSE,
     tags              |-> <<"example", "test", "airflow-3.1.0">>]

\* lines 51-55, 58-62, 65-69, 72-76: the keyword arguments of each operator
\* construction; dag is the index in dags of the object bound to the name dag.
HelloTaskCall ==
    [var |-> "hello_task", operator |-> "PythonOperator",
     kwargs |-> [task_id |-> "print_hello",
                 python_callable |-> "print_hello",
                 dag |-> 1]]

SystemInfoTaskCall ==
    [var |-> "system_info_task", operator |-> "PythonOperator",
     kwargs |-> [task_id |-> "print_system_info",
                 python_callable |-> "print_system_info",
                 dag |-> 1]]

\* bash_task constructed with the task_id of hello_task
BashTaskCall_DuplicateId ==
    [var |-> "bash_task", operator |-> "BashOperator",
     kwargs |-> [task_id |-> "print_hello",
                 bash_command |-> "echo \"Bash task completed successfully!\" && date",
                 dag |-> 1]]

BashTaskCall ==
    [var |-> "bash_task", operator |-> "BashOperator",
     kwargs |-> [task_id |-> "run_bash_command",
                 bash_command |-> "echo \"Bash task completed successfully!\" && date",
                 dag |-> 1]]

\* version_check_task constructed with retries=0
VersionCheckTaskCall_RetriesOverride ==
    [var |-> "version_check_task", operator |-> "BashOperator",
     kwargs |-> [task_id |-> "check_airflow_version",
                 bash_command |-> "airflow version",
                 retries |-> 0,
                 dag |-> 1]]

VersionCheckTaskCall ==
    [var |-> "version_check_task", operator |-> "BashOperator",
     kwargs |-> [task_id |-> "check_airflow_version",
                 bash_command |-> "airflow version",
                 dag |-> 1]]

\* hello_task >> [system_info_task]
DependencyL79_OnlySystemInfo ==
    [self |-> "hello_task", others |-> {"system_info_task"},
     upstream |-> FALSE]

\* hello_task >> [system_info_task, bash_task, version_check_task]
DependencyL79_AlsoVersionCheck ==
    [self |-> "hello_task",
     others |-> {"system_info_task", "bash_task", "version_check_task"},
     upstream |-> FALSE]

\* line 79: hello_task >> [system_info_task, bash_task]
\*   hello_task.__rshift__(list) = hello_task.set_downstream(list)
DependencyL79 ==
    [self |-> "hello_task", others |-> {"system_info_task", "bash_task"},
     upstream |-> FALSE]

\* [system_info_task, bash_task] >> hello_task
DependencyL80_IntoHello ==
    [self |-> "hello_task", others |-> {"system_info_task", "bash_task"},
     upstream |-> TRUE]

\* [system_info_task] >> version_check_task
DependencyL80_OnlySystemInfo ==
    [self |-> "version_check_task", others |-> {"system_info_task"},
     upstream |-> TRUE]

\* [system_info_task] >> bash_task
DependencyL80_IntoBash ==
    [self |-> "bash_task", others |-> {"system_info_task"},
     upstream |-> TRUE]

\* line 80: [system_info_task, bash_task] >> version_check_task
\*   list has no __rshift__ for an operator, so
\*   version_check_task.__rrshift__(list) = version_check_task.set_upstream(list)
DependencyL80 ==
    [self |-> "version_check_task", others |-> {"system_info_task", "bash_task"},
     upstream |-> TRUE]

-----------------------------------------------------------------------------
(* Object construction *)

\* An operator argument: the keyword given at the call, else the entry of the
\* DAG's default_args.
TaskArg(call, key) ==
    IF key \in DOMAIN call.kwargs
    THEN call.kwargs[key]
    ELSE dags[call.kwargs.dag].default_args[key]

\* The action an operator carries: python_callable for a PythonOperator,
\* bash_command for a BashOperator; the other attribute does not exist.
ActionArg(call, key) ==
    IF key \in DOMAIN call.kwargs THEN call.kwargs[key] ELSE None

NewTask(call) ==
    [var                 |-> call.var,
     operator            |-> call.operator,
     task_id             |-> call.kwargs.task_id,
     python_callable     |-> ActionArg(call, "python_callable"),
     bash_command        |-> ActionArg(call, "bash_command"),
     dag                 |-> call.kwargs.dag,
     owner               |-> TaskArg(call, "owner"),
     retries             |-> TaskArg(call, "retries"),
     retry_delay         |-> TaskArg(call, "retry_delay"),
     email_on_failure    |-> TaskArg(call, "email_on_failure"),
     email_on_retry      |-> TaskArg(call, "email_on_retry"),
     upstream_task_ids   |-> {},
     downstream_task_ids |-> {}]

\* The operator object bound to a module-level name.
TaskIndex(v) == CHOOSE i \in 1..Len(tasks) : tasks[i].var = v

\* self.set_upstream(others) / self.set_downstream(others): each side of
\* every new edge records the other's task_id.
SetRelatives(dep) ==
    LET self     == tasks[TaskIndex(dep.self)]
        otherIds == {tasks[TaskIndex(o)].task_id : o \in dep.others}
    IN  [i \in 1..Len(tasks) |->
            LET t == tasks[i]
                asSelf ==
                    IF t.var = dep.self
                    THEN IF dep.upstream
                         THEN [t EXCEPT !.upstream_task_ids = @ \cup otherIds]
                         ELSE [t EXCEPT !.downstream_task_ids = @ \cup otherIds]
                    ELSE t
            IN  IF t.var \in dep.others
                THEN IF dep.upstream
                     THEN [asSelf EXCEPT !.downstream_task_ids = @ \cup {self.task_id}]
                     ELSE [asSelf EXCEPT !.upstream_task_ids = @ \cup {self.task_id}]
                ELSE asSelf]


-----------------------------------------------------------------------------
(* Loading the module: one action per top-level statement *)

Init ==
    /\ pc = "L12"
    /\ ns = {}
    /\ default_args = << >>
    /\ dags = << >>
    /\ tasks = << >>
    /\ frame = [fn |-> None, ip |-> 0]
    /\ stdout = << >>
    /\ results = << >>
    /\ run = "none"
    /\ ti_state = << >>
    /\ try_number = << >>

\* lines 12-20: default_args = {...}
BindDefaultArgs ==
    /\ pc = "L12"
    /\ default_args' = DefaultArgsLiteral
    /\ ns' = ns \cup {"default_args"}
    /\ pc' = "L23"
    /\ UNCHANGED <<dags, tasks, callVars, runVars>>

\* lines 23-31: dag = DAG(...), on a platform release whose DAG constructor
\* takes the keyword schedule_interval.
ConstructDag ==
    /\ pc = "L23"
    /\ dags' = Append(dags, [dag_id            |-> DagCall.dag_id,
                             default_args      |-> DagCall.default_args,
                             description       |-> DagCall.description,
                             schedule_interval |-> DagCall.schedule_interval,
                             start_date        |-> DagCall.start_date,
                             catchup           |-> DagCall.catchup,
                             tags              |-> DagCall.tags,
                             task_ids          |-> << >>])
    /\ ns' = ns \cup {"dag"}
    /\ pc' = "L33"
    /\ UNCHANGED <<default_args, tasks, callVars, runVars>>

\* lines 23-31 on a platform release whose DAG constructor has no parameter
\* schedule_interval (the keyword of line 27): the call raises TypeError and
\* the load stops with nothing further bound.
ConstructDagRaises ==
    /\ pc = "L23"
    /\ "schedule_interval" \in DOMAIN DagCall
    /\ pc' = "error"
    /\ UNCHANGED <<ns, default_args, dags, tasks, callVars, runVars>>

\* lines 33 and 39: def print_hello / def print_system_info
DefFunction(at, name, next) ==
    /\ pc = at
    /\ ns' = ns \cup {name}
    /\ pc' = next
    /\ UNCHANGED <<default_args, dags, tasks, callVars, runVars>>

DefPrintHello == DefFunction("L33", "print_hello", "L39")

DefPrintSystemInfo == DefFunction("L39", "print_system_info", "L51")

\* An operator constructed with dag=dag is registered with that DAG.
ConstructTask(at, call, next) ==
    /\ pc = at
    /\ tasks' = Append(tasks, NewTask(call))
    /\ dags' = [dags EXCEPT ![call.kwargs.dag].task_ids =
                                Append(@, call.kwargs.task_id)]
    /\ ns' = ns \cup {call.var}
    /\ pc' = next
    /\ UNCHANGED <<default_args, callVars, runVars>>

\* lines 51-55
ConstructHelloTask == ConstructTask("L51", HelloTaskCall, "L58")

\* lines 58-62
ConstructSystemInfoTask == ConstructTask("L58", SystemInfoTaskCall, "L65")

\* lines 65-69
ConstructBashTask == ConstructTask("L65", BashTaskCall, "L72")

\* lines 72-76
ConstructVersionCheckTask == ConstructTask("L72", VersionCheckTaskCall, "L79")

DeclareDependency(at, dep, next) ==
    /\ pc = at
    /\ tasks' = SetRelatives(dep)
    /\ pc' = next
    /\ UNCHANGED <<ns, default_args, dags, callVars, runVars>>

\* line 79
DeclareL79 == DeclareDependency("L79", DependencyL79, "L80")

\* line 80, the last statement of the module
DeclareL80 == DeclareDependency("L80", DependencyL80, "loaded")

Load ==
    \/ BindDefaultArgs
    \/ ConstructDag
    \/ ConstructDagRaises
    \/ DefPrintHello
    \/ DefPrintSystemInfo
    \/ ConstructHelloTask
    \/ ConstructSystemInfoTask
    \/ ConstructBashTask
    \/ ConstructVersionCheckTask
    \/ DeclareL79
    \/ DeclareL80

-----------------------------------------------------------------------------
(* The two callables, invoked directly *)

\* lines 33-37
print_hello ==
    << [op |-> "print",  arg |-> "Hello from Airflow 3.1.0!"],
       [op |-> "print",  arg |-> "DAG is running successfully on Minikube!"],
       [op |-> "return", arg |-> "Success!"] >>

\* print_system_info returning before its last print
print_system_info_EarlyReturn ==
    << [op |-> "import", arg |-> "platform"],
       [op |-> "import", arg |-> "sys"],
       [op |-> "print",  arg |-> "Python version: {sys.version}"],
       [op |-> "print",  arg |-> "Platform: {platform.platform()}"],
       [op |-> "print",  arg |-> "Processor: {platform.processor()}"],
       [op |-> "return", arg |-> "System info collected!"] >>

\* lines 39-48
print_system_info ==
    << [op |-> "import", arg |-> "platform"],
       [op |-> "import", arg |-> "sys"],
       [op |-> "print",  arg |-> "Python version: {sys.version}"],
       [op |-> "print",  arg |-> "Platform: {platform.platform()}"],
       [op |-> "print",  arg |-> "Processor: {platform.processor()}"],
       [op |-> "print",  arg |-> "Airflow 3.1.0 test completed successfully!"],
       [op |-> "return", arg |-> "System info collected!"] >>

Callables == {"print_hello", "print_system_info"}

Body(fn) == IF fn = "print_hello" THEN print_hello ELSE print_system_info

\* The statement the active call executes next.
Stmt == Body(frame.fn)[frame.ip]

\* A caller that imported the module invokes fn().
Call(fn) ==
    /\ pc = "loaded"
    /\ fn \in ns
    /\ frame.fn = None
    /\ Len(results) < MaxCalls
    /\ frame' = [fn |-> fn, ip |-> 1]
    /\ stdout' = << >>
    /\ UNCHANGED <<loadVars, results, runVars>>

CallPrintHello == Call("print_hello")

CallPrintSystemInfo == Call("print_system_info")

ExecImport ==
    /\ frame.fn # None
    /\ Stmt.op = "import"
    /\ frame' = [frame EXCEPT !.ip = @ + 1]
    /\ UNCHANGED <<loadVars, stdout, results, runVars>>

ExecPrint ==
    /\ frame.fn # None
    /\ Stmt.op = "print"
    /\ stdout' = Append(stdout, Stmt.arg)
    /\ frame' = [frame EXCEPT !.ip = @ + 1]
    /\ UNCHANGED <<loadVars, results, runVars>>

ExecReturn ==
    /\ frame.fn # None
    /\ Stmt.op = "return"
    /\ results' = Append(results, [fn      |-> frame.fn,
                                   value   |-> Stmt.arg,
                                   printed |-> stdout])
    /\ frame' = [fn |-> None, ip |-> 0]
    /\ UNCHANGED <<loadVars, stdout, runVars>>

-----------------------------------------------------------------------------
(* One run of the graph by the platform's executor.  The executor is not   *)
(* part of the file; it reads the registered task ids, each task's         *)
(* upstream_task_ids and each task's retries.                              *)

DagTaskIds == {dags[1].task_ids[i] : i \in 1..Len(dags[1].task_ids)}

Task(id) == tasks[CHOOSE i \in 1..Len(tasks) : tasks[i].task_id = id]

Upstream(id) == Task(id).upstream_task_ids

Terminal == {"success", "failed", "upstream_failed"}

\* All declared upstream tasks have succeeded.
DepsMet(id) == \A u \in Upstream(id) : ti_state[u] = "success"

StartRun ==
    /\ pc = "loaded"
    /\ run = "none"
    /\ run' = "running"
    /\ ti_state' = [t \in DagTaskIds |-> "none"]
    /\ try_number' = [t \in DagTaskIds |-> 0]
    /\ UNCHANGED <<loadVars, callVars>>

\* First attempt, or the retry of a task that is up for retry.
StartTask(t) ==
    /\ run = "running"
    /\ ti_state[t] \in {"none", "up_for_retry"}
    /\ DepsMet(t)
    /\ ti_state' = [ti_state EXCEPT ![t] = "running"]
    /\ try_number' = [try_number EXCEPT ![t] = @ + 1]
    /\ UNCHANGED <<loadVars, callVars, run>>

TaskSucceeds(t) ==
    /\ run = "running"
    /\ ti_state[t] = "running"
    /\ ti_state' = [ti_state EXCEPT ![t] = "success"]
    /\ UNCHANGED <<loadVars, callVars, run, try_number>>

\* A failed attempt is retried while attempts so far do not exceed retries.
TaskFails(t) ==
    /\ run = "running"
    /\ ti_state[t] = "running"
    /\ ti_state' = [ti_state EXCEPT ![t] =
                        IF try_number[t] <= Task(t).retries
                        THEN "up_for_retry" ELSE "failed"]
    /\ UNCHANGED <<loadVars, callVars, run, try_number>>

\* A task none of whose attempts started, with a failed upstream task.
MarkUpstreamFailed(t) ==
    /\ run = "running"
    /\ ti_state[t] = "none"
    /\ \E u \in Upstream(t) : ti_state[u] \in {"failed", "upstream_failed"}
    /\ ti_state' = [ti_state EXCEPT ![t] = "upstream_failed"]
    /\ UNCHANGED <<loadVars, callVars, run, try_number>>

FinishRun ==
    /\ run = "running"
    /\ \A t \in DagTaskIds : ti_state[t] \in Terminal
    /\ run' = IF \A t \in DagTaskIds : ti_state[t] = "success"
              THEN "success" ELSE "failed"
    /\ UNCHANGED <<loadVars, callVars, ti_state, try_number>>

DoStartTask == \E t \in DOMAIN ti_state : StartTask(t)

DoTaskSucceeds == \E t \in DOMAIN ti_state : TaskSucceeds(t)

DoTaskFails == \E t \in DOMAIN ti_state : TaskFails(t)

DoMarkUpstreamFailed == \E t \in DOMAIN ti_state : MarkUpstreamFailed(t)

Executor ==
    \/ StartRun
    \/ DoStartTask
    \/ DoTaskSucceeds
    \/ DoTaskFails
    \/ DoMarkUpstreamFailed
    \/ FinishRun

-----------------------------------------------------------------------------

Next ==
    \/ BindDefaultArgs
    \/ ConstructDag
    \/ ConstructDagRaises
    \/ DefPrintHello
    \/ DefPrintSystemInfo
    \/ ConstructHelloTask
    \/ ConstructSystemInfoTask
    \/ ConstructBashTask
    \/ ConstructVersionCheckTask
    \/ DeclareL79
    \/ DeclareL80
    \/ CallPrintHello
    \/ CallPrintSystemInfo
    \/ ExecImport
    \/ ExecPrint
    \/ ExecReturn
    \/ StartRun
    \/ DoStartTask
    \/ DoTaskSucceeds
    \/ DoTaskFails
    \/ DoMarkUpstreamFailed
    \/ FinishRun

Spec == Init /\ [][Next]_vars

\* The load runs to its end, and the executor keeps taking steps while it
\* has one to take.
FairSpec == Spec /\ WF_vars(Load) /\ WF_vars(Executor)

-----------------------------------------------------------------------------
(* The declared graph, read off the operator objects *)

TaskIdSeq == [i \in 1..Len(tasks) |-> tasks[i].task_id]

TaskIds == {tasks[i].task_id : i \in 1..Len(tasks)}

\* a -> b: b is in a's downstream_task_ids
Edges ==
    UNION {{<<tasks[i].task_id, d>> : d \in tasks[i].downstream_task_ids} :
           i \in 1..Len(tasks)}

\* a -> b: a is in b's upstream_task_ids
UpEdges ==
    UNION {{<<u, tasks[i].task_id>> : u \in tasks[i].upstream_task_ids} :
           i \in 1..Len(tasks)}

Compose(R, S) ==
    {<<p[1], q[2]>> : <<p, q>> \in {pq \in R \X S : pq[1][2] = pq[2][1]}}

RECURSIVE Paths(_, _)
\* pairs joined by a path of at most n + 1 edges of R
Paths(R, n) ==
    IF n = 0 THEN R
    ELSE LET P == Paths(R, n - 1) IN P \cup Compose(P, R)

\* transitive closure
Precedes(R) == Paths(R, Cardinality(R))

Hello == "print_hello"
SysInfo == "print_system_info"
Bash == "run_bash_command"
Version == "check_airflow_version"

FourIds == {Hello, SysInfo, Bash, Version}

Started(t) == run # "none" /\ try_number[t] > 0

-----------------------------------------------------------------------------
(* Claims *)

\* C1: once the module is loaded, the names hello_task, system_info_task,
\* bash_task and version_check_task hold the tasks print_hello,
\* print_system_info, run_bash_command and check_airflow_version, and the
\* transitive closure of the declared dependencies orders exactly:
\* print_hello before each of the other three, and each of
\* print_system_info and run_bash_command before check_airflow_version.
C1_PartialOrder ==
    pc = "loaded" =>
        /\ {<<tasks[i].var, tasks[i].task_id>> : i \in 1..Len(tasks)} =
               {<<"hello_task", Hello>>, <<"system_info_task", SysInfo>>,
                <<"bash_task", Bash>>, <<"version_check_task", Version>>}
        /\ Precedes(Edges) =
               {<<Hello, SysInfo>>, <<Hello, Bash>>, <<Hello, Version>>,
                <<SysInfo, Version>>, <<Bash, Version>>}

C1_Witness ==
    /\ pc = "loaded"
    /\ <<Hello, Version>> \in Precedes(Edges)
    /\ <<Hello, Version>> \notin Edges

\* C2: at every step of the load at most four tasks are registered and no
\* identifier is registered twice, in the operator objects and in the DAG's
\* registry alike; once the module is loaded the registered identifiers are
\* exactly the four of the source.
C2_FourUniqueTaskIds ==
    /\ Len(tasks) <= 4
    /\ \A i, j \in 1..Len(tasks) : tasks[i].task_id = tasks[j].task_id => i = j
    /\ \A d \in 1..Len(dags) :
          /\ dags[d].task_ids = TaskIdSeq
          /\ dags[d].dag_id = "example_airflow_test"
    /\ pc = "loaded" => Len(tasks) = 4 /\ TaskIds = FourIds

C2_Witness ==
    /\ pc = "loaded"
    /\ Len(dags[1].task_ids) = 4
    /\ Version \in TaskIds

\* C3: in every state of the load and after it, no task reaches itself along
\* one or more dependency edges.
C3_Acyclic ==
    /\ \A t \in TaskIds : <<t, t>> \notin Precedes(Edges)
    /\ \A t \in TaskIds : <<t, t>> \notin Precedes(UpEdges)

C3_Witness ==
    /\ pc = "L80"
    /\ Cardinality(Edges) = 2
    /\ Precedes(Edges) = Edges

\* C4: every completed direct call of print_hello has printed two lines and
\* returned "Success!", and every completed direct call of
\* print_system_info has printed four lines and returned
\* "System info collected!", whatever calls came before; a call in progress
\* has printed no more than that.
C4_CallableResults ==
    /\ \A i \in 1..Len(results) :
          /\ results[i].fn = "print_hello" =>
                 results[i].value = "Success!" /\ Len(results[i].printed) = 2
          /\ results[i].fn = "print_system_info" =>
                 /\ results[i].value = "System info collected!"
                 /\ Len(results[i].printed) = 4
    /\ frame.fn = "print_hello" => Len(stdout) <= 2
    /\ frame.fn = "print_system_info" => Len(stdout) <= 4

C4_Witness ==
    /\ Len(results) = 2
    /\ results[1].fn = "print_system_info"
    /\ results[2].fn = "print_hello"

\* C5: default_args, once bound, holds retries 1, a retry delay of 300
\* seconds, and no email on failure or retry; the DAG is handed the same
\* mapping, and every operator object carries the same four values; after the
\* load that is all four tasks.
FailureHandling(r) ==
    /\ r.retries = 1
    /\ r.retry_delay.days = 0
    /\ r.retry_delay.seconds = 300
    /\ r.email_on_failure = FALSE
    /\ r.email_on_retry = FALSE

C5_FailureHandlingConfig ==
    /\ "default_args" \in ns => FailureHandling(default_args)
    /\ \A d \in 1..Len(dags) : FailureHandling(dags[d].default_args)
    /\ \A i \in 1..Len(tasks) : FailureHandling(tasks[i])
    /\ pc = "loaded" => Len(tasks) = 4

C5_Witness ==
    /\ pc = "loaded"
    /\ \A t \in FourIds : Task(t).retries = 1

C7_StartsAfterUpstream ==
    run # "none" =>
        /\ Started(SysInfo) => ti_state[Hello] = "success"
        /\ Started(Bash) => ti_state[Hello] = "success"
        /\ Started(Version) =>
               ti_state[SysInfo] = "success" /\ ti_state[Bash] = "success"

C7_Witness ==
    /\ run = "running"
    /\ ti_state[Version] = "running"
    /\ ti_state[SysInfo] = "success"
    /\ ti_state[Bash] = "success"

\* One of the two middle tasks has succeeded, the other has not, and
\* check_airflow_version has not started.
C7_OneMiddleTaskDone ==
    /\ run = "running"
    /\ ti_state[SysInfo] = "success"
    /\ ti_state[Bash] # "success"
    /\ ~Started(Version)

\* C8: neither of print_system_info and run_bash_command precedes the other
\* in the declared order, and in a run, once print_hello has succeeded, each
\* of the two that is waiting for an attempt can start one, whatever the
\* state of the other.
C8_MiddleTasksUnordered ==
    /\ <<SysInfo, Bash>> \notin Precedes(Edges)
    /\ <<Bash, SysInfo>> \notin Precedes(Edges)
    /\ (run = "running" /\ ti_state[Hello] = "success") =>
          \A t \in {SysInfo, Bash} :
              ti_state[t] \in {"none", "up_for_retry"} => ENABLED StartTask(t)

\* the two attempts overlap
C8_Witness ==
    /\ run = "running"
    /\ ti_state[SysInfo] = "running"
    /\ ti_state[Bash] = "running"

\* print_system_info has finished and run_bash_command has not started
C8_SysInfoFirst ==
    /\ run = "running"
    /\ ti_state[SysInfo] = "success"
    /\ ti_state[Bash] = "none"

\* run_bash_command has finished and print_system_info has not started
C8_BashFirst ==
    /\ run = "running"
    /\ ti_state[Bash] = "success"
    /\ ti_state[SysInfo] = "none"

\* C9: once the module is loaded the direct edges are exactly
\* print_hello -> print_system_info, print_hello -> run_bash_command,
\* print_system_info -> check_airflow_version and
\* run_bash_command -> check_airflow_version, recorded alike on both ends;
\* print_hello alone has no upstream task, check_airflow_version alone has
\* no downstream task, and every task is print_hello or reachable from it
\* and is check_airflow_version or reaches it.
C9_DirectEdges ==
    pc = "loaded" =>
        /\ Edges = {<<Hello, SysInfo>>, <<Hello, Bash>>,
                    <<SysInfo, Version>>, <<Bash, Version>>}
        /\ UpEdges = Edges
        /\ {t \in TaskIds : Task(t).upstream_task_ids = {}} = {Hello}
        /\ {t \in TaskIds : Task(t).downstream_task_ids = {}} = {Version}
        /\ \A t \in TaskIds :
              /\ t = Hello \/ <<Hello, t>> \in Precedes(Edges)
              /\ t = Version \/ <<t, Version>> \in Precedes(Edges)

C9_Witness ==
    /\ pc = "loaded"
    /\ Cardinality(Edges) = 4
    /\ Task(Hello).downstream_task_ids = {SysInfo, Bash}
    /\ Task(Version).upstream_task_ids = {SysInfo, Bash}

RunFinished == run \in {"success", "failed"}

\* tasks reachable from t along dependency edges
Descendants(t) == {d \in TaskIds : <<t, d>> \in Precedes(Edges)}

\* C10: under the fair executor, no task has more than two attempts; a run in
\* progress always has a step to take; a loaded graph's run finishes; a
\* finished run in which no task failed has all four tasks succeeded; and no
\* task downstream of a failed task has an attempt started.
C10_RunTerminates ==
    /\ [](run # "none" => \A t \in DOMAIN try_number : try_number[t] <= 2)
    /\ [](run = "running" => ENABLED Executor)
    /\ (pc = "loaded") ~> RunFinished
    /\ []((RunFinished /\ \A t \in DOMAIN ti_state : ti_state[t] # "failed") =>
            /\ run = "success"
            /\ DOMAIN ti_state = FourIds
            /\ \A t \in FourIds : ti_state[t] = "success")
    /\ [](run # "none" =>
            \A t \in DOMAIN ti_state :
                ti_state[t] = "failed" =>
                    \A d \in Descendants(t) : try_number[d] = 0)

\* a run in which all four tasks succeeded, one of them on its second attempt
C10_Witness ==
    /\ run = "success"
    /\ \A t \in FourIds : ti_state[t] = "success"
    /\ try_number[Bash] = 2

\* a finished run in which print_system_info failed both attempts
C10_FailedTwice ==
    /\ run = "failed"
    /\ ti_state[SysInfo] = "failed"
    /\ try_number[SysInfo] = 2
    /\ ti_state[Version] = "upstream_failed"

=============================================================================
